---- MODULE Spec2Model ----
(***************************************************************************)
(* Real-time visual inference demo: detection post-processing              *)
(* (processOutput), classification top-K, the animation-frame loop of      *)
(* RealTimeDetector and the interval loops of the two App components.      *)
(*                                                                         *)
(* Numbers: class scores and probabilities are percentages (0.5 is 50),    *)
(* box coordinates are integers; proposal widths and heights are drawn     *)
(* even so that width / 2 is exact.  Sequences are 1-based, so the class   *)
(* id and tensor indices of the code (0-based) are the TLA+ index minus 1. *)
(***************************************************************************)
EXTENDS Integers, Sequences, FiniteSets, TLC

VARIABLES
    \* ---- processOutput (part_001:106-160) ----
    po_proposals,   \* rows of the transposed prediction matrix
    po_widthRatio,  \* widthRatio argument
    po_heightRatio, \* heightRatio argument
    po_result,      \* [boxes, scores, classes] returned
    po_filtered,    \* the arrays that entered the suppression step
    po_pc,          \* "idle", "input" before the call, "done" after it
    \* ---- classification post-processing (part_000:119-129) ----
    probabilities,  \* await result.data()
    predictions,    \* the predictions state (setPredictions)
    tk_pc,          \* "idle", "input" before processPredictions resumes, "done"
    \* ---- RealTimeDetector (part_001) ----
    model,          \* useModel: "null" or "loaded"
    modelLoading,   \* useModel: loading
    webcamStatus,   \* useState 'Awaiting model...'
    cameraReady,    \* useState(false)
    loopStarted,    \* useState(false)
    rendered,       \* the state values captured by the closures of the latest render
    mounted,        \* the component is mounted (videoRef/canvasRef.current non-null)
    camera,         \* "idle", "requesting", "stream", "ready", "failed"
    readyState,     \* video.readyState, 0..4
    chains,         \* one record per loop() chain begun by startLoop
    numTensors,     \* tf.memory().numTensors above the baseline
    canvas,         \* what the overlay shows: the arrays last drawn
    \* ---- App.tsx (coco-ssd detection, setInterval 100 ms) ----
    app_model,      \* useState model: "null" or "loaded"
    app_loading,    \* useState loading
    app_timers,     \* live intervals: [id, model captured by the callback]
    app_nextId,     \* next id setInterval returns
    app_inflight,   \* detectObjects calls waiting on model.detect
    app_canvas,     \* detections the canvas shows
    app_predictions, \* what the latest resolved model.detect returned (line 57)
    app_mounted,
    app_readyState, \* video.readyState
    \* ---- classification App (part_000, setInterval 500 ms) ----
    cls_model,              \* useState model
    cls_intermediateModel,  \* useState intermediateModel
    cls_load,               \* "loading", "loaded", "failed"
    cls_timers,             \* live intervals: [id, model, intermediateModel]
    cls_nextId,
    cls_inflight,           \* processPredictions calls waiting on result.data()
    cls_mounted,
    cls_readyState,
    cls_layers,             \* what loadedModel.layers held: "unknown" until loaded
    cls_warnings,           \* the console.warn calls made
    cls_disposedUse,        \* a disposed tensor has been passed to a model
    \* ---- executeInference (utils/loadModel.ts:29-85) ----
    ei_pc,          \* "idle", "start", "awaiting" (line 54), "done", "threw"
    ei_middle,      \* the values model.execute returns at the split layer
    ei_tensors,     \* per tensor of the call: how many times it was disposed
    ei_data,        \* the arrays computed on the way
    ei_fed          \* what the second model.execute receives at the split layer

poVars == <<po_proposals, po_widthRatio, po_heightRatio, po_result, po_filtered, po_pc>>
tkVars == <<probabilities, predictions, tk_pc>>

rtdVars == <<model, modelLoading, webcamStatus, cameraReady, loopStarted, rendered,
             mounted, camera, readyState, chains, numTensors, canvas>>

appVars == <<app_model, app_loading, app_timers, app_nextId, app_inflight, app_canvas,
             app_predictions, app_mounted, app_readyState>>
clsVars == <<cls_model, cls_intermediateModel, cls_load, cls_timers, cls_nextId,
             cls_inflight, cls_mounted, cls_readyState, cls_layers, cls_warnings,
             cls_disposedUse>>

eiVars == <<ei_pc, ei_middle, ei_tensors, ei_data, ei_fed>>

vars == <<po_proposals, po_widthRatio, po_heightRatio, po_result, po_filtered, po_pc,
          probabilities, predictions, tk_pc,
          model, modelLoading, webcamStatus, cameraReady, loopStarted, rendered,
          mounted, camera, readyState, chains, numTensors, canvas,
          app_model, app_loading, app_timers, app_nextId, app_inflight, app_canvas,
          app_predictions, app_mounted, app_readyState,
          cls_model, cls_intermediateModel, cls_load, cls_timers, cls_nextId,
          cls_inflight, cls_mounted, cls_readyState, cls_layers, cls_warnings,
          cls_disposedUse,
          ei_pc, ei_middle, ei_tensors, ei_data, ei_fed>>

(***************************************************************************)
(* Bounds                                                                  *)
(***************************************************************************)
MaxBase == 2      \* length of the proposal pattern
MaxReps == 11     \* how many times the pattern is repeated in one output
MaxOut == 4       \* length of the classifier's output vector
NumLabels == 3    \* entries of the class-label table
MaxTicks == 3     \* animation frames delivered to the detection loop
MaxInFlight == 2  \* inference calls of an interval loop pending at once
MaxMid == 3       \* elements of the intermediate tensor

(***************************************************************************)
(* Program constants                                                       *)
(***************************************************************************)
TopKSize == 3                \* .slice(0, 3)
ConfidenceThreshold == 50    \* confidenceThreshold = 0.5
MaxOutputSize == 20          \* nonMaxSuppressionAsync(.., 20, ..)
IouThresholdNum == 9         \* iouThreshold 0.45 = 9 / 20
IouThresholdDen == 20
HaveFutureData == 3          \* videoRef.current.readyState < 3
HaveEnoughData == 4          \* videoRef.current.readyState === 4
QuantLevels == 127           \* maxAbs.div(127.0)

(***************************************************************************)
(* Helpers                                                                 *)
(***************************************************************************)
Min(a, b) == IF a < b THEN a ELSE b
Max(a, b) == IF a > b THEN a ELSE b

RECURSIVE Repeat(_, _)
Repeat(s, n) == IF n = 0 THEN <<>> ELSE s \o Repeat(s, n - 1)

(***************************************************************************)
(* processOutput, step 1: per-proposal arg-max of the class scores         *)
(* (classScores.forEach with a strict >, starting from maxScore = -1).     *)
(***************************************************************************)
RECURSIVE MaxScoreFrom(_, _, _, _)
MaxScoreFrom(classScores, i, maxScore, classId) ==
    IF i > Len(classScores) THEN [maxScore |-> maxScore, classId |-> classId]
    ELSE IF classScores[i] > maxScore
         THEN MaxScoreFrom(classScores, i + 1, classScores[i], i - 1)
         ELSE MaxScoreFrom(classScores, i + 1, maxScore, classId)

MaxScore(classScores) == MaxScoreFrom(classScores, 1, -1, -1)

\* the confidence test of line 134
PassesNoFilter(maxScore) == TRUE
PassesAtThreshold(maxScore) == maxScore >= ConfidenceThreshold
Passes(maxScore) == maxScore > ConfidenceThreshold

\* the box pushed at lines 137-142
ScaledBoxFromCenter(p, widthRatio, heightRatio) ==
    << p.x_center * widthRatio,
       p.y_center * heightRatio,
       p.width * widthRatio,
       p.height * heightRatio >>
ScaledBox(p, widthRatio, heightRatio) ==
    << (p.x_center - p.width \div 2) * widthRatio,
       (p.y_center - p.height \div 2) * heightRatio,
       p.width * widthRatio,
       p.height * heightRatio >>

\* proposals.forEach of lines 121-144: the three parallel arrays; src is the
\* index of the proposal each entry was pushed for (not in the code: it
\* lets properties speak of "the proposal it came from").
RECURSIVE FilterFrom(_, _, _, _, _)
FilterFrom(proposals, i, widthRatio, heightRatio, acc) ==
    IF i > Len(proposals) THEN acc
    ELSE LET p == proposals[i]
             m == MaxScore(p.classScores)
         IN IF Passes(m.maxScore)
            THEN FilterFrom(proposals, i + 1, widthRatio, heightRatio,
                   [boxes   |-> Append(acc.boxes, ScaledBox(p, widthRatio, heightRatio)),
                    scores  |-> Append(acc.scores, m.maxScore),
                    classes |-> Append(acc.classes, m.classId),
                    src     |-> Append(acc.src, i)])
            ELSE FilterFrom(proposals, i + 1, widthRatio, heightRatio, acc)

EmptyArrays == [boxes |-> <<>>, scores |-> <<>>, classes |-> <<>>, src |-> <<>>]

FilterProposals(proposals, widthRatio, heightRatio) ==
    FilterFrom(proposals, 1, widthRatio, heightRatio, EmptyArrays)

(***************************************************************************)
(* tf.image.nonMaxSuppressionAsync(boxes, scores, maxOutputSize,           *)
(* iouThreshold): the library reads each row of boxes as the two corners   *)
(* [y1, x1, y2, x2]; scoreThreshold defaults to -Infinity, soft-NMS off.   *)
(***************************************************************************)
\* intersection-over-union as the library computes it from two rows,
\* returned as the fraction num / den (den = 0 stands for the result 0.0)
LibIoU(bi, bj) ==
    LET yminI == Min(bi[1], bi[3])   xminI == Min(bi[2], bi[4])
        ymaxI == Max(bi[1], bi[3])   xmaxI == Max(bi[2], bi[4])
        yminJ == Min(bj[1], bj[3])   xminJ == Min(bj[2], bj[4])
        ymaxJ == Max(bj[1], bj[3])   xmaxJ == Max(bj[2], bj[4])
        areaI == (ymaxI - yminI) * (xmaxI - xminI)
        areaJ == (ymaxJ - yminJ) * (xmaxJ - xminJ)
        ih == Max(Min(ymaxI, ymaxJ) - Max(yminI, yminJ), 0)
        iw == Max(Min(xmaxI, xmaxJ) - Max(xminI, xminJ), 0)
        inter == ih * iw
    IN IF areaI <= 0 \/ areaJ <= 0 THEN [num |-> 0, den |-> 0]
       ELSE [num |-> inter, den |-> areaI + areaJ - inter]

\* iou >= iouThreshold
Suppresses(bi, bj) ==
    LET iou == LibIoU(bi, bj)
    IN iou.den > 0 /\ iou.num * IouThresholdDen >= IouThresholdNum * iou.den

\* the candidate the library pops next: highest score, lowest index on ties
NextCandidate(scores, cands) ==
    CHOOSE c \in cands :
        \A d \in cands : scores[c] > scores[d] \/ (scores[c] = scores[d] /\ c <= d)

\* the selection may stop growing at maxOutputSize
NoCap(selected, maxOutputSize) == TRUE
BelowCap(selected, maxOutputSize) == Len(selected) < maxOutputSize

RECURSIVE NmsLoop(_, _, _, _, _)
NmsLoop(boxes, scores, cands, selected, maxOutputSize) ==
    IF cands = {} \/ ~BelowCap(selected, maxOutputSize) THEN selected
    ELSE LET c == NextCandidate(scores, cands)
             ignore == \E j \in 1..Len(selected) : Suppresses(boxes[c], boxes[selected[j]])
         IN NmsLoop(boxes, scores, cands \ {c},
                    IF ignore THEN selected ELSE Append(selected, c),
                    maxOutputSize)

NonMaxSuppression(boxes, scores, maxOutputSize) ==
    NmsLoop(boxes, scores, 1..Len(scores), <<>>, maxOutputSize)

\* tf.gather(t, indices).array()
Gather(arr, indices) == [k \in 1..Len(indices) |-> arr[indices[k]]]

\* lines 148-159: suppression and the three gathers
SuppressAndGatherBoxesScores(f) ==
    LET indices == NonMaxSuppression(f.boxes, f.scores, MaxOutputSize)
    IN [boxes   |-> Gather(f.boxes, indices),
        scores  |-> Gather(f.scores, indices),
        classes |-> f.classes,
        src     |-> Gather(f.src, indices)]
SuppressAndGather(f) ==
    LET indices == NonMaxSuppression(f.boxes, f.scores, MaxOutputSize)
    IN [boxes   |-> Gather(f.boxes, indices),
        scores  |-> Gather(f.scores, indices),
        classes |-> Gather(f.classes, indices),
        src     |-> Gather(f.src, indices)]

\* processOutput as a whole (lines 106-160)
ProcessOutput(proposals, widthRatio, heightRatio) ==
    LET f == FilterProposals(proposals, widthRatio, heightRatio)
    IN IF Len(f.boxes) = 0 THEN EmptyArrays ELSE SuppressAndGather(f)

(***************************************************************************)
(* Inputs of processOutput                                                 *)
(***************************************************************************)
Proposal(xc, yc, w, h, cs) ==
    [x_center |-> xc, y_center |-> yc, width |-> w, height |-> h, classScores |-> cs]

\* the proposals a prediction matrix is built from: a box read by the
\* library as zero-area, two boxes that overlap (one with either best class),
\* the box of the worked example, and best scores at and below the threshold
ProposalTypes ==
    { Proposal(15, 15, 10, 10, <<60, 10>>),     \* corner form (10, 10, 10, 10)
      Proposal(6, 6, 12, 12, <<60, 10>>),       \* corner form (0, 0, 12, 12)
      Proposal(6, 6, 12, 12, <<20, 80>>),
      Proposal(7, 6, 12, 12, <<20, 80>>),       \* corner form (1, 0, 12, 12)
      Proposal(100, 100, 50, 50, <<60, 10>>),   \* corner form (75, 75, 50, 50)
      Proposal(40, 40, 4, 4, <<50, 30>>),       \* best score exactly 0.5
      Proposal(15, 15, 10, 10, <<40, 45>>) }    \* best score below 0.5

Ratios == {1, 2}

PatternsOfLen(n) == [1..n -> ProposalTypes]
Patterns == UNION { PatternsOfLen(n) : n \in 0..MaxBase }

CallProcessOutput ==
    /\ po_pc = "input"
    /\ po_result' = ProcessOutput(po_proposals, po_widthRatio, po_heightRatio)
    /\ po_filtered' = FilterProposals(po_proposals, po_widthRatio, po_heightRatio)
    /\ po_pc' = "done"
    /\ UNCHANGED <<po_proposals, po_widthRatio, po_heightRatio>>
    /\ UNCHANGED <<tkVars, rtdVars, appVars, clsVars, eiVars>>

(***************************************************************************)
(* Classification post-processing: map to {probability, className}, sort   *)
(* by probability descending (Array.prototype.sort is stable), keep the    *)
(* first three.                                                            *)
(***************************************************************************)
\* IMAGENET_CLASSES[i] || `unknown id: i`, i the 0-based output index
ClassName(i) ==
    IF i < NumLabels THEN [label |-> i] ELSE [unknown |-> i]

\* Array.from(probabilities).map((p, i) => ...)
MapPredictions(probs) ==
    [k \in 1..Len(probs) |-> [probability |-> probs[k], className |-> ClassName(k - 1)]]

\* the comparator (a, b) => b.probability - a.probability
CompareAscending(a, b) == a.probability - b.probability
Compare(a, b) == b.probability - a.probability

\* stable insertion of e into the sorted prefix: e goes before the first
\* element that the comparator orders after it
RECURSIVE InsertSorted(_, _)
InsertSorted(sorted, e) ==
    IF sorted = <<>> THEN <<e>>
    ELSE IF Compare(Head(sorted), e) <= 0
         THEN <<Head(sorted)>> \o InsertSorted(Tail(sorted), e)
         ELSE <<e>> \o sorted

RECURSIVE SortFrom(_, _, _)
SortFrom(arr, i, sorted) ==
    IF i > Len(arr) THEN sorted
    ELSE SortFrom(arr, i + 1, InsertSorted(sorted, arr[i]))

Sort(arr) == SortFrom(arr, 1, <<>>)

\* .slice(0, n)
Slice(arr, n) == SubSeq(arr, 1, Min(n, Len(arr)))

TopK(probs) == Slice(Sort(MapPredictions(probs)), TopKSize)

ProbValues == {10, 30, 60}

OutputsOfLen(n) == [1..n -> ProbValues]
Outputs == UNION { OutputsOfLen(n) : n \in 0..MaxOut }

\* lines 121-129: topK computed and published
ProcessPredictions ==
    /\ tk_pc = "input"
    /\ predictions' = TopK(probabilities)
    /\ tk_pc' = "done"
    /\ UNCHANGED probabilities
    /\ UNCHANGED <<poVars, rtdVars, appVars, clsVars, eiVars>>

(***************************************************************************)
(* RealTimeDetector: React state, the start effect, the animation-frame    *)
(* loop and the tensors each tick allocates and disposes.                  *)
(***************************************************************************)
State ==
    [model |-> model, modelLoading |-> modelLoading,
     cameraReady |-> cameraReady, loopStarted |-> loopStarted]

\* steps: what the chain's latest tick has done so far (not in the code: it
\* lets properties speak of the order of a tick's steps)
\* result: the [boxes, scores, classes] that processOutput handed to the
\* chain's latest tick that got that far (line 43)
NewChain ==
    [raf |-> 0, inflight |-> <<>>, ticks |-> 0, errors |-> 0, model |-> model,
     steps |-> <<>>, result |-> EmptyArrays]

TotalTicks ==
    LET RECURSIVE Sum(_)
        Sum(i) == IF i = 0 THEN 0 ELSE chains[i].ticks + Sum(i - 1)
    IN Sum(Len(chains))

\* the guard of runDetectionLoop (lines 21-23) for a chain's closure
SkipsWithoutVideoCheck(ch) ==
    \/ ch.model = "null"
    \/ ~mounted
Skips(ch) ==
    \/ ch.model = "null"
    \/ ~mounted
    \/ readyState < HaveFutureData

\* loop(): the animation-frame callback is taken off the queue (line 59)
LoopOnFireKeepsRequest(ch) == ch
LoopOnFire(ch) == [ch EXCEPT !.raf = @ - 1]

\* loop(): requestAnimationFrame(loop) once runDetectionLoop has resolved
\* (line 61)
LoopAfterTick(ch) == [ch EXCEPT !.raf = @ + 1]

\* tensors: tf.tidy of lines 34-38 hands one tensor out of its scope
TensorsAfterPreprocess(n) == n + 1
\* model.execute returns predictions, tensor.dispose() (lines 40-41)
TensorsAfterExecute(n) == n + 1 - 1
\* tf.tensor(data).transpose(), transposed.dispose() (lines 112-114)
TensorsAfterTranspose(n) == n + 2 - 1
\* tf.tensor2d(boxes), tf.tensor1d(scores) (lines 148-149)
TensorsAfterNmsInputs(n) == n + 2
\* indices, three tf.gather results and tf.tensor1d(classes), then
\* tf.dispose([boxTensors, scoreTensors, indices]) (lines 150-158)
TensorsAfterGather(n) == n + 1 + 4 - 3
\* tf.dispose(predictions) (line 50)
TensorsAfterDraw(n) == n - 1

\* ctx.clearRect(0, 0, ctx.canvas.width, ctx.canvas.height) (line 168)
ClearRectKeeps(cv) == cv
ClearRect(cv) == EmptyArrays

\* drawBoundingBoxes (lines 162-191): the canvas is cleared, then one box
\* and label is added per entry of scores.  The canvas is recorded as the
\* detections it shows, not as pixels, so the mirrored x is not computed.
DrawBoundingBoxes(cv, r) ==
    LET c == ClearRect(cv)
    IN [boxes |-> c.boxes \o r.boxes, scores |-> c.scores \o r.scores,
        classes |-> c.classes \o r.classes, src |-> c.src \o r.src]

\* what model.execute does in one tick: it throws, or returns an output
DetectorOutputs ==
    { <<>>,
      << Proposal(15, 15, 10, 10, <<40, 45>>) >>,
      << Proposal(6, 6, 12, 12, <<60, 10>>) >>,
      << Proposal(6, 6, 12, 12, <<60, 10>>), Proposal(7, 6, 12, 12, <<20, 80>>) >> }

TickOutcomes ==
    { [kind |-> "throw"] } \cup
    { [kind |-> "output", proposals |-> o, widthRatio |-> wr, heightRatio |-> hr] :
         o \in DetectorOutputs, wr \in Ratios, hr \in Ratios }

\* one call of loop() up to its first real suspension: runDetectionLoop
\* (lines 20-50) returns early, throws, finishes without suppression, or is
\* left waiting for nonMaxSuppressionAsync
StartTick(ch0, n, cv, oc) ==
    LET ch == [ch0 EXCEPT !.ticks = @ + 1, !.steps = <<>>]
    IN IF Skips(ch)
       THEN [chain |-> LoopAfterTick(ch), numTensors |-> n, canvas |-> cv]
       ELSE IF oc.kind = "throw"
       THEN [chain |-> [ch EXCEPT !.errors = @ + 1, !.steps = <<"preprocess", "infer">>],
             numTensors |-> TensorsAfterPreprocess(n), canvas |-> cv]
       ELSE LET n1 == TensorsAfterTranspose(TensorsAfterExecute(TensorsAfterPreprocess(n)))
                f == FilterProposals(oc.proposals, oc.widthRatio, oc.heightRatio)
            IN IF Len(f.boxes) = 0
               THEN [chain |-> LoopAfterTick(
                                 [ch EXCEPT !.steps = <<"preprocess", "infer",
                                                        "postprocess", "render">>,
                                            !.result = EmptyArrays]),
                     numTensors |-> TensorsAfterDraw(n1),
                     canvas |-> DrawBoundingBoxes(cv, EmptyArrays)]
               ELSE [chain |-> [ch EXCEPT !.inflight = Append(@, f),
                                          !.steps = <<"preprocess", "infer">>],
                     numTensors |-> TensorsAfterNmsInputs(n1), canvas |-> cv]

\* if (loopStarted) return (line 55)
NeverStarted(started) == FALSE
AlreadyStarted(started) == started

\* useModel resolves with a model
ModelLoadSucceeded ==
    /\ mounted /\ modelLoading
    /\ model' = "loaded"
    /\ modelLoading' = FALSE
    /\ UNCHANGED <<webcamStatus, cameraReady, loopStarted, rendered, mounted, camera,
                   readyState, chains, numTensors, canvas>>
    /\ UNCHANGED <<poVars, tkVars, appVars, clsVars, eiVars>>

\* useModel gives up
ModelLoadFailed ==
    /\ mounted /\ modelLoading
    /\ modelLoading' = FALSE
    /\ UNCHANGED <<model, webcamStatus, cameraReady, loopStarted, rendered, mounted, camera,
                   readyState, chains, numTensors, canvas>>
    /\ UNCHANGED <<poVars, tkVars, appVars, clsVars, eiVars>>

\* the condition of the start effect (line 100)
ModelReady == model # "null" /\ ~modelLoading
ModelAndCameraReady == model # "null" /\ ~modelLoading /\ cameraReady

\* a re-render after a state change, with the effects whose dependencies
\* changed: the webcam effect (lines 69-96) and the start effect (lines
\* 99-103), which calls startLoop (lines 54-66) and with it the first loop()
Render ==
    /\ mounted
    /\ rendered # State
    /\ rendered' = State
    /\ IF rendered.modelLoading # modelLoading /\ ~modelLoading
       THEN webcamStatus' = "Starting camera..." /\ camera' = "requesting"
       ELSE UNCHANGED <<webcamStatus, camera>>
    /\ IF ModelAndCameraReady /\ ~AlreadyStarted(loopStarted)
       THEN /\ loopStarted' = TRUE
            /\ \E oc \in TickOutcomes :
                 LET r == StartTick(NewChain, numTensors, canvas, oc)
                 IN /\ chains' = Append(chains, r.chain)
                    /\ numTensors' = r.numTensors
                    /\ canvas' = r.canvas
       ELSE UNCHANGED <<loopStarted, chains, numTensors, canvas>>
    /\ UNCHANGED <<model, modelLoading, cameraReady, mounted, readyState>>
    /\ UNCHANGED <<poVars, tkVars, appVars, clsVars, eiVars>>

\* getUserMedia resolves: the stream is attached when the refs are set
\* (lines 73-88)
CameraGranted ==
    /\ camera = "requesting"
    /\ camera' = IF mounted THEN "stream" ELSE "idle"
    /\ UNCHANGED <<model, modelLoading, webcamStatus, cameraReady, loopStarted, rendered,
                   mounted, readyState, chains, numTensors, canvas>>
    /\ UNCHANGED <<poVars, tkVars, appVars, clsVars, eiVars>>

\* the catch block of startWebcam leaves cameraReady as it is (lines 89-92)
CameraReadyAfterCatchSet(ready) == TRUE
CameraReadyAfterCatch(ready) == ready

\* getUserMedia rejects (lines 89-92)
CameraDenied ==
    /\ camera = "requesting"
    /\ camera' = "failed"
    /\ webcamStatus' = "Failed to start webcam."
    /\ cameraReady' = CameraReadyAfterCatch(cameraReady)
    /\ UNCHANGED <<model, modelLoading, loopStarted, rendered,
                   mounted, readyState, chains, numTensors, canvas>>
    /\ UNCHANGED <<poVars, tkVars, appVars, clsVars, eiVars>>

\* video.onloadedmetadata (lines 76-87)
LoadedMetadata ==
    /\ mounted
    /\ camera = "stream"
    /\ camera' = "ready"
    /\ webcamStatus' = "Webcam ready."
    /\ cameraReady' = TRUE
    /\ UNCHANGED <<model, modelLoading, loopStarted, rendered,
                   mounted, readyState, chains, numTensors, canvas>>
    /\ UNCHANGED <<poVars, tkVars, appVars, clsVars, eiVars>>

\* the video element moves between its ready states while a stream is attached
ReadyStateChange ==
    /\ camera \in {"stream", "ready"}
    /\ \E r \in 0..4 : r # readyState /\ readyState' = r
    /\ UNCHANGED <<model, modelLoading, webcamStatus, cameraReady, loopStarted, rendered,
                   mounted, camera, chains, numTensors, canvas>>
    /\ UNCHANGED <<poVars, tkVars, appVars, clsVars, eiVars>>

\* the browser delivers a requested animation frame to chain c: loop()
AnimationFrame(c) ==
    /\ chains[c].raf > 0
    /\ TotalTicks < MaxTicks
    /\ \E oc \in TickOutcomes :
         LET r == StartTick(LoopOnFire(chains[c]), numTensors, canvas, oc)
         IN /\ chains' = [chains EXCEPT ![c] = r.chain]
            /\ numTensors' = r.numTensors
            /\ canvas' = r.canvas
    /\ UNCHANGED <<model, modelLoading, webcamStatus, cameraReady, loopStarted, rendered,
                   mounted, camera, readyState>>
    /\ UNCHANGED <<poVars, tkVars, appVars, clsVars, eiVars>>

RemoveAt(seq, k) == SubSeq(seq, 1, k - 1) \o SubSeq(seq, k + 1, Len(seq))

\* nonMaxSuppressionAsync resolves for the k-th waiting tick of chain c: the
\* rest of processOutput (lines 150-159), drawBoundingBoxes, the dispose of
\* line 50, and loop() requests the next frame
SuppressionDone(c, k) ==
    /\ k \in 1..Len(chains[c].inflight)
    /\ chains' = [chains EXCEPT ![c] =
                     LoopAfterTick([@ EXCEPT !.inflight = RemoveAt(@, k),
                                             !.steps = @ \o <<"postprocess", "render">>,
                                             !.result = SuppressAndGather(
                                                            chains[c].inflight[k])])]
    /\ numTensors' = TensorsAfterDraw(TensorsAfterGather(numTensors))
    /\ canvas' = DrawBoundingBoxes(canvas, SuppressAndGather(chains[c].inflight[k]))
    /\ UNCHANGED <<model, modelLoading, webcamStatus, cameraReady, loopStarted, rendered,
                   mounted, camera, readyState>>
    /\ UNCHANGED <<poVars, tkVars, appVars, clsVars, eiVars>>

\* the component is torn down: no effect of RealTimeDetector returns a
\* cleanup (the function startLoop returns is dropped at line 101), the refs
\* become null
Unmount ==
    /\ mounted
    /\ mounted' = FALSE
    /\ UNCHANGED <<model, modelLoading, webcamStatus, cameraReady, loopStarted, rendered,
                   camera, readyState, chains, numTensors, canvas>>
    /\ UNCHANGED <<poVars, tkVars, appVars, clsVars, eiVars>>

Next ==
    \/ ModelLoadSucceeded
    \/ ModelLoadFailed
    \/ Render
    \/ CameraGranted
    \/ CameraDenied
    \/ LoadedMetadata
    \/ ReadyStateChange
    \/ \E c \in 1..Len(chains) : AnimationFrame(c)
    \/ \E c \in 1..Len(chains) : \E k \in 1..Len(chains[c].inflight) : SuppressionDone(c, k)
    \/ Unmount

(***************************************************************************)
(* App.tsx: detectObjects on a 100 ms interval                             *)
(***************************************************************************)
\* what model.detect resolves with
DetectResults == { {}, {"person"}, {"person", "cup"} }

\* clearInterval(intervalId): the cleanup both interval effects return
\* (App.tsx line 74, part_000 line 95)
ClearIntervalNoop(timers, id) == timers
ClearInterval(timers, id) == { t \in timers : t.id # id }

\* the intervalId held by the cleanup of the effect's latest run (line 70)
AppEffectId == app_nextId - 1

\* loadModel().then (lines 16-20); the re-render runs the cleanup of the
\* interval effect and the effect again, with the new model (lines 70-75)
AppModelLoaded ==
    /\ app_mounted /\ app_loading
    /\ app_model' = "loaded"
    /\ app_loading' = FALSE
    /\ app_timers' = ClearInterval(app_timers, AppEffectId)
                          \cup { [id |-> app_nextId, model |-> "loaded"] }
    /\ app_nextId' = app_nextId + 1
    /\ UNCHANGED <<app_inflight, app_canvas, app_predictions, app_mounted,
                   app_readyState>>
    /\ UNCHANGED <<poVars, tkVars, rtdVars, clsVars, eiVars>>

\* loadModel().catch (lines 21-24): model unchanged, the effect does not re-run
AppModelLoadFailed ==
    /\ app_mounted /\ app_loading
    /\ app_loading' = FALSE
    /\ UNCHANGED <<app_model, app_timers, app_nextId, app_inflight, app_canvas,
                   app_predictions, app_mounted, app_readyState>>
    /\ UNCHANGED <<poVars, tkVars, rtdVars, clsVars, eiVars>>

AppReadyStateChange ==
    /\ app_mounted
    /\ \E r \in 0..4 : r # app_readyState /\ app_readyState' = r
    /\ UNCHANGED <<app_model, app_loading, app_timers, app_nextId, app_inflight,
                   app_canvas, app_predictions, app_mounted>>
    /\ UNCHANGED <<poVars, tkVars, rtdVars, clsVars, eiVars>>

\* the guard of detectObjects (line 56)
AppTickRuns(t) ==
    t.model # "null" /\ app_mounted /\ app_readyState = HaveEnoughData

\* an interval fires: detectObjects() runs up to await model.detect (line 57)
AppTimerFire(t) ==
    /\ t \in app_timers
    /\ AppTickRuns(t)
    /\ app_inflight < MaxInFlight
    /\ app_inflight' = app_inflight + 1
    /\ UNCHANGED <<app_model, app_loading, app_timers, app_nextId, app_canvas,
                   app_predictions, app_mounted, app_readyState>>
    /\ UNCHANGED <<poVars, tkVars, rtdVars, clsVars, eiVars>>

\* ctx.clearRect(0, 0, ctx.canvas.width, ctx.canvas.height) (line 62)
AppClearRect(cv) == {}

\* drawDetection: one box and label is added per detection
DrawDetection(detections, cv) == cv \cup detections

\* model.detect resolves: clearRect and drawDetection when the canvas is
\* still there (lines 57-66)
AppDetectDone ==
    /\ app_inflight > 0
    /\ app_inflight' = app_inflight - 1
    /\ \E d \in DetectResults :
         /\ app_predictions' = d
         /\ app_canvas' = IF app_mounted
                          THEN DrawDetection(d, AppClearRect(app_canvas))
                          ELSE app_canvas
    /\ UNCHANGED <<app_model, app_loading, app_timers, app_nextId,
                   app_mounted, app_readyState>>
    /\ UNCHANGED <<poVars, tkVars, rtdVars, clsVars, eiVars>>

\* unmount: the cleanup clears the interval (line 74)
AppUnmount ==
    /\ app_mounted
    /\ app_mounted' = FALSE
    /\ app_timers' = ClearInterval(app_timers, AppEffectId)
    /\ UNCHANGED <<app_model, app_loading, app_nextId, app_inflight, app_canvas,
                   app_predictions, app_readyState>>
    /\ UNCHANGED <<poVars, tkVars, rtdVars, clsVars, eiVars>>

(***************************************************************************)
(* Classification App: predict on a 500 ms interval                        *)
(***************************************************************************)
\* what result.data() resolves with in a tick
ClassifierOutputs == { <<10, 60, 30, 60>>, <<30, 10>> }

\* loadedModel.layers: absent, holding the named layer, or lacking it
LayerCases == {"nolayers", "found", "notfound"}

\* the warnings of loadModel (lines 38-58): the outer test skips the whole
\* block when the model has no layers, so the inner else (line 56) is never
\* reached; only a layer list without the name warns (line 49)
WarningsAfterLoad(warnings, layers) ==
    IF layers = "notfound" THEN warnings \cup {"layer not found"} ELSE warnings

\* tf.tidy (lines 104-143) disposes every tensor made inside its callback
\* when the callback returns, before processPredictions resumes
AfterTidy(tensor) == "disposed"

\* the intervalId held by the cleanup of the effect's latest run (line 88)
ClsEffectId == cls_nextId - 1

\* loadModel (lines 29-58): setModel, and setIntermediateModel when the
\* named layer is found; the two updates are made in one synchronous stretch
\* and the re-render that follows runs the cleanup of the interval effect and
\* the effect again (lines 87-96)
ClsModelLoaded(layers) ==
    /\ cls_mounted /\ cls_load = "loading"
    /\ cls_load' = "loaded"
    /\ cls_model' = "loaded"
    /\ cls_intermediateModel' = IF layers = "found" THEN "loaded" ELSE "null"
    /\ cls_timers' = ClearInterval(cls_timers, ClsEffectId)
                          \cup { [id |-> cls_nextId, model |-> "loaded",
                                  intermediateModel |-> cls_intermediateModel'] }
    /\ cls_nextId' = cls_nextId + 1
    /\ cls_layers' = layers
    /\ cls_warnings' = WarningsAfterLoad(cls_warnings, layers)
    /\ UNCHANGED <<cls_inflight, cls_mounted, cls_readyState, cls_disposedUse>>
    /\ UNCHANGED <<poVars, tkVars, rtdVars, appVars, eiVars>>

\* tf.loadGraphModel rejects (lines 59-61)
ClsModelLoadFailed ==
    /\ cls_mounted /\ cls_load = "loading"
    /\ cls_load' = "failed"
    /\ UNCHANGED <<cls_model, cls_intermediateModel, cls_timers, cls_nextId,
                   cls_inflight, cls_mounted, cls_readyState, cls_layers, cls_warnings,
                   cls_disposedUse>>
    /\ UNCHANGED <<poVars, tkVars, rtdVars, appVars, eiVars>>

ClsReadyStateChange ==
    /\ cls_mounted
    /\ \E r \in 0..4 : r # cls_readyState /\ cls_readyState' = r
    /\ UNCHANGED <<cls_model, cls_intermediateModel, cls_load, cls_timers, cls_nextId,
                   cls_inflight, cls_mounted, cls_layers, cls_warnings, cls_disposedUse>>
    /\ UNCHANGED <<poVars, tkVars, rtdVars, appVars, eiVars>>

\* the guard of the interval callback (line 90) and of predict (line 101)
ClsTickRuns(t) ==
    t.model # "null" /\ cls_mounted /\ cls_readyState = HaveEnoughData

\* an interval fires: predict() runs tf.tidy and, inside it,
\* processPredictions up to await result.data() (lines 104-119, 142)
ClsTimerFire(t) ==
    /\ t \in cls_timers
    /\ ClsTickRuns(t)
    /\ Len(cls_inflight) < MaxInFlight
    /\ cls_inflight' = Append(cls_inflight,
                               [intermediateModel |-> t.intermediateModel,
                                normalizedTensor |-> AfterTidy("live"),
                                result |-> AfterTidy("live")])
    /\ UNCHANGED <<cls_model, cls_intermediateModel, cls_load, cls_timers, cls_nextId,
                   cls_mounted, cls_readyState, cls_layers, cls_warnings, cls_disposedUse>>
    /\ UNCHANGED <<poVars, tkVars, rtdVars, appVars, eiVars>>

\* result.data() resolves for the k-th waiting call: topK, setPredictions
\* (lines 121-129), then intermediateModel.predict(normalizedTensor) when the
\* closure holds an intermediate model (lines 132-139)
ClsPredictDone(k) ==
    /\ k \in 1..Len(cls_inflight)
    /\ cls_inflight' = RemoveAt(cls_inflight, k)
    /\ \E probs \in ClassifierOutputs :
         predictions' = IF cls_mounted THEN TopK(probs) ELSE predictions
    /\ cls_disposedUse' =
          (\/ cls_disposedUse
           \/ /\ cls_inflight[k].intermediateModel # "null"
              /\ cls_inflight[k].normalizedTensor = "disposed")
    /\ UNCHANGED <<cls_model, cls_intermediateModel, cls_load, cls_timers, cls_nextId,
                   cls_mounted, cls_readyState, cls_layers, cls_warnings>>
    /\ UNCHANGED <<probabilities, tk_pc>>
    /\ UNCHANGED <<poVars, rtdVars, appVars, eiVars>>

\* unmount: the cleanup clears the interval (line 95)
ClsUnmount ==
    /\ cls_mounted
    /\ cls_mounted' = FALSE
    /\ cls_timers' = ClearInterval(cls_timers, ClsEffectId)
    /\ UNCHANGED <<cls_model, cls_intermediateModel, cls_load, cls_nextId,
                   cls_inflight, cls_readyState, cls_layers, cls_warnings, cls_disposedUse>>
    /\ UNCHANGED <<poVars, tkVars, rtdVars, appVars, eiVars>>

NextInterval ==
    \/ AppModelLoaded
    \/ AppModelLoadFailed
    \/ AppReadyStateChange
    \/ \E t \in app_timers : AppTimerFire(t)
    \/ AppDetectDone
    \/ AppUnmount
    \/ \E layers \in LayerCases : ClsModelLoaded(layers)
    \/ ClsModelLoadFailed
    \/ ClsReadyStateChange
    \/ \E t \in cls_timers : ClsTimerFire(t)
    \/ \E k \in 1..Len(cls_inflight) : ClsPredictDone(k)
    \/ ClsUnmount

(***************************************************************************)
(* executeInference: split inference with int8 quantization of the         *)
(* intermediate tensor.  scale is maxAbs / 127; values that carry the      *)
(* factor scale are kept as numerators over 127.                           *)
(***************************************************************************)
NoTensors == [t \in {} |-> 0]
NoData == [quantized |-> <<>>, int8 |-> <<>>, dequantized |-> <<>>]
NothingFed == [tensor |-> "none", values |-> <<>>]

Abs(x) == IF x < 0 THEN -x ELSE x

\* tf.round(num / den) for den > 0: nearest integer, halves to even
Round(num, den) ==
    LET fl == IF num >= 0 THEN num \div den ELSE -((-num + den - 1) \div den)
        twice == 2 * (num - fl * den)
    IN IF twice < den THEN fl
       ELSE IF twice > den THEN fl + 1
       ELSE IF fl % 2 = 0 THEN fl ELSE fl + 1

\* new Int8Array(floats): each value truncated and wrapped modulo 2^8
ToInt8(x) ==
    LET m == x % 256
    IN IF m >= 128 THEN m - 256 ELSE m

\* middleTensor.abs().max() (line 49)
MaxAbs(values) ==
    LET absValues == { Abs(values[i]) : i \in 1..Len(values) }
    IN CHOOSE m \in absValues : \A a \in absValues : a <= m

\* middleTensor.div(scale).round() (line 51)
Quantize(values) ==
    [i \in 1..Len(values) |-> Round(values[i] * QuantLevels, MaxAbs(values))]

\* tensors the call creates, each live (disposed 0 times)
Created(tensors, names) ==
    [t \in DOMAIN tensors \cup names |-> IF t \in DOMAIN tensors THEN tensors[t] ELSE 0]

\* tf.dispose([...])
Disposed(tensors, names) ==
    [t \in DOMAIN tensors |-> IF t \in names THEN tensors[t] + 1 ELSE tensors[t]]

MiddleValues == {-200, -64, 0, 1, 127, 300}

MiddleTensors ==
    { m \in UNION { [1..n -> MiddleValues] : n \in 1..MaxMid } :
        \E i \in 1..Len(m) : m[i] # 0 }

\* lines 42-54: the first half runs, the quantization tensors are made, and
\* the call waits for middleTensor.data()
FirstHalf ==
    /\ ei_pc = "start"
    /\ ei_pc' = "awaiting"
    /\ ei_tensors' = Created(ei_tensors, {"middleTensor", "absResult", "maxAbs", "scale",
                                          "divResult", "quantizedTensor"})
    /\ ei_data' = [ei_data EXCEPT !.quantized = Quantize(ei_middle)]
    /\ UNCHANGED <<ei_middle, ei_fed>>
    /\ UNCHANGED <<poVars, tkVars, rtdVars, appVars, clsVars>>

\* model.execute throws at line 42
FirstHalfThrows ==
    /\ ei_pc = "start"
    /\ ei_pc' = "threw"
    /\ UNCHANGED <<ei_middle, ei_tensors, ei_data, ei_fed>>
    /\ UNCHANGED <<poVars, tkVars, rtdVars, appVars, clsVars>>

\* lines 55-62: the Int8Array is built from the data of middleTensor, the
\* Float32Array from it, and the dequantized tensor is that times scale
Int8Data == [i \in 1..Len(ei_middle) |-> ToInt8(ei_middle[i])]

\* lines 55-84: the second half is fed middleTensor (line 69), the listed
\* tensors are disposed and predictions is returned
SecondHalf ==
    /\ ei_pc = "awaiting"
    /\ ei_pc' = "done"
    /\ ei_data' = [ei_data EXCEPT
                     !.int8 = Int8Data,
                     !.dequantized = [i \in 1..Len(Int8Data) |->
                                         Int8Data[i] * MaxAbs(ei_middle)]]
    /\ ei_fed' = [tensor |-> "middleTensor",
                  values |-> [i \in 1..Len(ei_middle) |-> ei_middle[i] * QuantLevels]]
    /\ ei_tensors' =
          Disposed(Created(ei_tensors, {"dequantizedData", "dequantizedTensor",
                                        "dummyInput", "predictions"}),
                   {"inputTensor", "middleTensor", "maxAbs", "scale", "quantizedTensor",
                    "dequantizedTensor", "dummyInput"})
    /\ UNCHANGED ei_middle
    /\ UNCHANGED <<poVars, tkVars, rtdVars, appVars, clsVars>>

\* the second model.execute throws (line 66): nothing is disposed
SecondHalfThrows ==
    /\ ei_pc = "awaiting"
    /\ ei_pc' = "threw"
    /\ ei_data' = [ei_data EXCEPT
                     !.int8 = Int8Data,
                     !.dequantized = [i \in 1..Len(Int8Data) |->
                                         Int8Data[i] * MaxAbs(ei_middle)]]
    /\ ei_tensors' = Created(ei_tensors, {"dequantizedData", "dequantizedTensor",
                                          "dummyInput"})
    /\ UNCHANGED <<ei_middle, ei_fed>>
    /\ UNCHANGED <<poVars, tkVars, rtdVars, appVars, clsVars>>

NextInfer ==
    \/ FirstHalf
    \/ FirstHalfThrows
    \/ SecondHalf
    \/ SecondHalfThrows

(***************************************************************************)
(* Initial states.  Each specification starts one part of the program and  *)
(* leaves the others unmounted and idle.                                   *)
(***************************************************************************)
\* RealTimeDetector after its first render and effects: the model is
\* loading, so neither startWebcam nor startLoop has run
Init ==
    /\ model = "null"
    /\ modelLoading = TRUE
    /\ webcamStatus = "Awaiting model..."
    /\ cameraReady = FALSE
    /\ loopStarted = FALSE
    /\ rendered = State
    /\ mounted = TRUE
    /\ camera = "idle"
    /\ readyState = 0
    /\ chains = <<>>
    /\ numTensors = 0
    /\ canvas = EmptyArrays
    /\ po_proposals = <<>>
    /\ po_widthRatio = 1
    /\ po_heightRatio = 1
    /\ po_result = EmptyArrays
    /\ po_filtered = EmptyArrays
    /\ po_pc = "idle"
    /\ probabilities = <<>>
    /\ predictions = <<>>
    /\ tk_pc = "idle"
    /\ app_model = "null"
    /\ app_loading = TRUE
    /\ app_timers = {}
    /\ app_nextId = 1
    /\ app_inflight = 0
    /\ app_canvas = {}
    /\ app_predictions = {}
    /\ app_mounted = FALSE
    /\ app_readyState = 0
    /\ cls_model = "null"
    /\ cls_intermediateModel = "null"
    /\ cls_load = "loading"
    /\ cls_timers = {}
    /\ cls_nextId = 1
    /\ cls_inflight = <<>>
    /\ cls_mounted = FALSE
    /\ cls_readyState = 0
    /\ cls_layers = "unknown"
    /\ cls_warnings = {}
    /\ cls_disposedUse = FALSE
    /\ ei_pc = "idle"
    /\ ei_middle = <<>>
    /\ ei_tensors = NoTensors
    /\ ei_data = NoData
    /\ ei_fed = NothingFed

\* both App components after their first render: each interval effect has
\* run once, with model = null
InitInterval ==
    /\ app_model = "null"
    /\ app_loading = TRUE
    /\ app_timers = { [id |-> 1, model |-> "null"] }
    /\ app_nextId = 2
    /\ app_inflight = 0
    /\ app_canvas = {}
    /\ app_predictions = {}
    /\ app_mounted = TRUE
    /\ app_readyState = 0
    /\ cls_model = "null"
    /\ cls_intermediateModel = "null"
    /\ cls_load = "loading"
    /\ cls_timers = { [id |-> 1, model |-> "null", intermediateModel |-> "null"] }
    /\ cls_nextId = 2
    /\ cls_inflight = <<>>
    /\ cls_mounted = TRUE
    /\ cls_readyState = 0
    /\ cls_layers = "unknown"
    /\ cls_warnings = {}
    /\ cls_disposedUse = FALSE
    /\ ei_pc = "idle"
    /\ ei_middle = <<>>
    /\ ei_tensors = NoTensors
    /\ ei_data = NoData
    /\ ei_fed = NothingFed
    /\ model = "null"
    /\ modelLoading = TRUE
    /\ webcamStatus = "Awaiting model..."
    /\ cameraReady = FALSE
    /\ loopStarted = FALSE
    /\ rendered = State
    /\ mounted = FALSE
    /\ camera = "idle"
    /\ readyState = 0
    /\ chains = <<>>
    /\ numTensors = 0
    /\ canvas = EmptyArrays
    /\ po_proposals = <<>>
    /\ po_widthRatio = 1
    /\ po_heightRatio = 1
    /\ po_result = EmptyArrays
    /\ po_filtered = EmptyArrays
    /\ po_pc = "idle"
    /\ probabilities = <<>>
    /\ predictions = <<>>
    /\ tk_pc = "idle"

\* processOutput about to be called on a bounded prediction matrix
InitPO ==
    /\ \E base \in Patterns, reps \in 1..MaxReps :
           po_proposals = Repeat(base, reps)
    /\ po_widthRatio \in Ratios
    /\ po_heightRatio \in Ratios
    /\ po_result = EmptyArrays
    /\ po_filtered = EmptyArrays
    /\ po_pc = "input"
    /\ probabilities = <<>>
    /\ predictions = <<>>
    /\ tk_pc = "idle"
    /\ model = "null"
    /\ modelLoading = TRUE
    /\ webcamStatus = "Awaiting model..."
    /\ cameraReady = FALSE
    /\ loopStarted = FALSE
    /\ rendered = State
    /\ mounted = FALSE
    /\ camera = "idle"
    /\ readyState = 0
    /\ chains = <<>>
    /\ numTensors = 0
    /\ canvas = EmptyArrays
    /\ app_model = "null"
    /\ app_loading = TRUE
    /\ app_timers = {}
    /\ app_nextId = 1
    /\ app_inflight = 0
    /\ app_canvas = {}
    /\ app_predictions = {}
    /\ app_mounted = FALSE
    /\ app_readyState = 0
    /\ cls_model = "null"
    /\ cls_intermediateModel = "null"
    /\ cls_load = "loading"
    /\ cls_timers = {}
    /\ cls_nextId = 1
    /\ cls_inflight = <<>>
    /\ cls_mounted = FALSE
    /\ cls_readyState = 0
    /\ cls_layers = "unknown"
    /\ cls_warnings = {}
    /\ cls_disposedUse = FALSE
    /\ ei_pc = "idle"
    /\ ei_middle = <<>>
    /\ ei_tensors = NoTensors
    /\ ei_data = NoData
    /\ ei_fed = NothingFed

\* processPredictions about to resume with a bounded output vector
InitTopK ==
    /\ probabilities \in Outputs
    /\ predictions = <<>>
    /\ tk_pc = "input"
    /\ po_proposals = <<>>
    /\ po_widthRatio = 1
    /\ po_heightRatio = 1
    /\ po_result = EmptyArrays
    /\ po_filtered = EmptyArrays
    /\ po_pc = "idle"
    /\ model = "null"
    /\ modelLoading = TRUE
    /\ webcamStatus = "Awaiting model..."
    /\ cameraReady = FALSE
    /\ loopStarted = FALSE
    /\ rendered = State
    /\ mounted = FALSE
    /\ camera = "idle"
    /\ readyState = 0
    /\ chains = <<>>
    /\ numTensors = 0
    /\ canvas = EmptyArrays
    /\ app_model = "null"
    /\ app_loading = TRUE
    /\ app_timers = {}
    /\ app_nextId = 1
    /\ app_inflight = 0
    /\ app_canvas = {}
    /\ app_predictions = {}
    /\ app_mounted = FALSE
    /\ app_readyState = 0
    /\ cls_model = "null"
    /\ cls_intermediateModel = "null"
    /\ cls_load = "loading"
    /\ cls_timers = {}
    /\ cls_nextId = 1
    /\ cls_inflight = <<>>
    /\ cls_mounted = FALSE
    /\ cls_readyState = 0
    /\ cls_layers = "unknown"
    /\ cls_warnings = {}
    /\ cls_disposedUse = FALSE
    /\ ei_pc = "idle"
    /\ ei_middle = <<>>
    /\ ei_tensors = NoTensors
    /\ ei_data = NoData
    /\ ei_fed = NothingFed

\* executeInference about to be called; the first half of the model will
\* return a bounded intermediate tensor
InitInfer ==
    /\ probabilities = <<>>
    /\ predictions = <<>>
    /\ tk_pc = "idle"
    /\ po_proposals = <<>>
    /\ po_widthRatio = 1
    /\ po_heightRatio = 1
    /\ po_result = EmptyArrays
    /\ po_filtered = EmptyArrays
    /\ po_pc = "idle"
    /\ model = "null"
    /\ modelLoading = TRUE
    /\ webcamStatus = "Awaiting model..."
    /\ cameraReady = FALSE
    /\ loopStarted = FALSE
    /\ rendered = State
    /\ mounted = FALSE
    /\ camera = "idle"
    /\ readyState = 0
    /\ chains = <<>>
    /\ numTensors = 0
    /\ canvas = EmptyArrays
    /\ app_model = "null"
    /\ app_loading = TRUE
    /\ app_timers = {}
    /\ app_nextId = 1
    /\ app_inflight = 0
    /\ app_canvas = {}
    /\ app_predictions = {}
    /\ app_mounted = FALSE
    /\ app_readyState = 0
    /\ cls_model = "null"
    /\ cls_intermediateModel = "null"
    /\ cls_load = "loading"
    /\ cls_timers = {}
    /\ cls_nextId = 1
    /\ cls_inflight = <<>>
    /\ cls_mounted = FALSE
    /\ cls_readyState = 0
    /\ cls_layers = "unknown"
    /\ cls_warnings = {}
    /\ cls_disposedUse = FALSE
    /\ ei_pc = "start"
    /\ ei_middle \in MiddleTensors
    /\ ei_tensors = [t \in {"inputTensor"} |-> 0]
    /\ ei_data = NoData
    /\ ei_fed = NothingFed

Spec == Init /\ [][Next]_vars

SpecInterval == InitInterval /\ [][NextInterval]_vars

SpecPO == InitPO /\ [][CallProcessOutput]_vars

SpecTopK == InitTopK /\ [][ProcessPredictions]_vars

SpecInfer == InitInfer /\ [][NextInfer]_vars

\* either program is the one mounted: RealTimeDetector, or the two interval
\* components.  The part that starts unmounted has no enabled action, so
\* every behaviour is a behaviour of Spec or one of SpecInterval.
InitRenderers == Init \/ InitInterval

NextRenderers == Next \/ NextInterval

SpecRenderers == InitRenderers /\ [][NextRenderers]_vars

(***************************************************************************)
(* Properties of processOutput                                             *)
(***************************************************************************)
\* intersection-over-union of two boxes (x, y, width, height) above 0.45
IoUAboveThreshold(a, b) ==
    LET iw == Max(Min(a[1] + a[3], b[1] + b[3]) - Max(a[1], b[1]), 0)
        ih == Max(Min(a[2] + a[4], b[2] + b[4]) - Max(a[2], b[2]), 0)
        inter == iw * ih
        union == a[3] * a[4] + b[3] * b[4] - inter
    IN union > 0 /\ inter * IouThresholdDen > IouThresholdNum * union

SeqMax(s) == CHOOSE m \in {s[i] : i \in 1..Len(s)} : \A i \in 1..Len(s) : s[i] <= m

\* proposals whose best class score clears the confidence threshold
Survivors ==
    { i \in 1..Len(po_proposals) : SeqMax(po_proposals[i].classScores) > ConfidenceThreshold }

\* C7: no two boxes returned by processOutput have intersection-over-union
\* above 0.45.
C7_KeptBoxesDoNotOverlap ==
    po_pc = "done" =>
        \A i, j \in 1..Len(po_result.boxes) :
            i < j => ~IoUAboveThreshold(po_result.boxes[i], po_result.boxes[j])

\* C8: processOutput returns at most 20 detections, in descending score
\* order, and the highest-scoring surviving proposal is kept whenever any
\* proposal survives the confidence filter.
C8_CapAndGreedy ==
    po_pc = "done" =>
        /\ Len(po_result.boxes) <= MaxOutputSize
        /\ \A k \in 1..(Len(po_result.scores) - 1) :
               po_result.scores[k] >= po_result.scores[k + 1]
        /\ Survivors # {} =>
               /\ Len(po_result.scores) >= 1
               /\ \A i \in Survivors :
                      po_result.scores[1] >= SeqMax(po_proposals[i].classScores)
               /\ po_result.src[1] \in Survivors

C8_Witness ==
    /\ po_pc = "done"
    /\ Cardinality(Survivors) > MaxOutputSize
    /\ Len(po_result.boxes) = MaxOutputSize

\* C9: every detection returned by processOutput has confidence >= 0.5, the
\* confidence being the maximum class score of the proposal it came from.
C9_ConfidenceAtLeastThreshold ==
    po_pc = "done" =>
        \A k \in 1..Len(po_result.scores) :
            /\ po_result.scores[k] >= ConfidenceThreshold
            /\ po_result.scores[k] = SeqMax(po_proposals[po_result.src[k]].classScores)

C9_Witness ==
    /\ po_pc = "done"
    /\ Len(po_result.scores) >= 1
    /\ \E i \in 1..Len(po_proposals) : i \notin Survivors

(***************************************************************************)
(* Properties of the classification result                                 *)
(***************************************************************************)
\* 0-based output index a published entry carries in its class name
IndexOf(e) == IF "label" \in DOMAIN e.className THEN e.className.label
              ELSE e.className.unknown

\* C10: the published classification result is sorted in non-increasing
\* order of probability, has length min(3, number of outputs) and holds the
\* 3 highest probabilities, each paired with the class label of its own
\* output index.
C10_TopKSortedAndLabelled ==
    tk_pc = "done" =>
        LET n == Len(probabilities)
            picked == { IndexOf(predictions[k]) + 1 : k \in 1..Len(predictions) }
        IN /\ Len(predictions) = Min(3, n)
           /\ \A k \in 1..(Len(predictions) - 1) :
                  predictions[k].probability >= predictions[k + 1].probability
           /\ \A k \in 1..Len(predictions) :
                  LET i == IndexOf(predictions[k]) + 1
                  IN /\ i \in 1..n
                     /\ predictions[k].probability = probabilities[i]
                     /\ predictions[k].className =
                            (IF i - 1 < NumLabels THEN [label |-> i - 1]
                             ELSE [unknown |-> i - 1])
           /\ Cardinality(picked) = Len(predictions)
           /\ \A i \in (1..n) \ picked, j \in picked :
                  probabilities[i] <= probabilities[j]

C10_Witness ==
    /\ tk_pc = "done"
    /\ Len(probabilities) > 3
    /\ Len(predictions) = 3
    /\ predictions[1].probability > predictions[3].probability
    /\ \E i \in 1..3 : probabilities[i] < probabilities[4]

(***************************************************************************)
(* Properties of RealTimeDetector's loop                                   *)
(***************************************************************************)
\* a chain is active while a frame is requested for it or a tick of it waits
Active(ch) == ch.raf + Len(ch.inflight) > 0

\* C2: within one started loop, a tick begins only when no other tick of
\* that loop is between its start and its end, and at most one frame
\* request or unfinished tick exists per loop.
C2_TicksSequential ==
    /\ [](\A c \in 1..Len(chains) : chains[c].raf + Len(chains[c].inflight) <= 1)
    /\ [][\A c \in 1..Len(chains) :
            chains'[c].ticks > chains[c].ticks => chains[c].inflight = <<>>]_vars

C2_Witness ==
    \E c \in 1..Len(chains) : chains[c].ticks >= 2 /\ Len(chains[c].inflight) = 1

\* C3: whatever the order of model-ready, camera-ready and re-render
\* events, at most one tick chain is ever begun, hence at most one is active.
C3_SingleChain ==
    /\ Len(chains) <= 1
    /\ Cardinality({c \in 1..Len(chains) : Active(chains[c])}) <= 1

C3_Witness ==
    /\ Len(chains) = 1
    /\ loopStarted /\ rendered.loopStarted
    /\ model = "loaded" /\ cameraReady
    /\ Active(chains[1])

\* C4: once the component is torn down no frame request is pending: the
\* pending request is cancelled and a tick that finishes afterwards does not
\* request another.
C4_StopCancelsSchedule ==
    ~mounted => \A c \in 1..Len(chains) : chains[c].raf = 0

\* C5: a tick that throws leaves its loop scheduled: a chain that has seen
\* an error still has a frame requested or a tick under way.
C5_LoopSurvivesError ==
    \A c \in 1..Len(chains) : chains[c].errors > 0 => Active(chains[c])

\* C6: between ticks the live-tensor count is at its baseline: when no tick
\* is under way and none has thrown, no tensor of an earlier tick is live.
C6_NoTensorLeak ==
    (\A c \in 1..Len(chains) : chains[c].inflight = <<>> /\ chains[c].errors = 0)
        => numTensors = 0

(***************************************************************************)
(* Properties of the interval loops                                        *)
(***************************************************************************)
\* C1: in each interval-driven loop at most one inference call is in flight
\* at any time.
C1_AtMostOneInFlight ==
    /\ app_inflight <= 1
    /\ Len(cls_inflight) <= 1

\* C11: every emitted box is ((centerX - width/2) * widthRatio,
\* (centerY - height/2) * heightRatio, width * widthRatio,
\* height * heightRatio) of the proposal it came from; center (100,100),
\* width 50, height 50 with ratios (1,1) gives (75, 75, 50, 50).
C11_BoxIsScaledCornerForm ==
    po_pc = "done" =>
        \A k \in 1..Len(po_result.boxes) :
            LET p == po_proposals[po_result.src[k]]
                b == po_result.boxes[k]
            IN /\ 2 * b[1] = (2 * p.x_center - p.width) * po_widthRatio
               /\ 2 * b[2] = (2 * p.y_center - p.height) * po_heightRatio
               /\ b[3] = p.width * po_widthRatio
               /\ b[4] = p.height * po_heightRatio
               /\ (/\ p.x_center = 100 /\ p.y_center = 100
                   /\ p.width = 50 /\ p.height = 50
                   /\ po_widthRatio = 1 /\ po_heightRatio = 1)
                      => b = <<75, 75, 50, 50>>

C11_Witness ==
    /\ po_pc = "done"
    /\ po_widthRatio = 1 /\ po_heightRatio = 1
    /\ \E k \in 1..Len(po_result.boxes) :
          /\ po_proposals[po_result.src[k]].x_center = 100
          /\ po_proposals[po_result.src[k]].width = 50
          /\ po_result.boxes[k] = <<75, 75, 50, 50>>

\* C12: the loop is started, a tick begun or a tensor allocated only when
\* the model is loaded (non-null, not loading) and the camera has signalled
\* readiness.
C12_StartsOnlyWhenBothReady ==
    (loopStarted \/ chains # <<>> \/ numTensors > 0)
        => (model # "null" /\ ~modelLoading /\ cameraReady /\ camera = "ready")

C12_Witness ==
    /\ Len(chains) = 1
    /\ chains[1].ticks >= 1
    /\ numTensors > 0
    /\ cameraReady /\ model = "loaded"

\* the steps of a full tick, in order
FullTick == <<"preprocess", "infer", "postprocess", "render">>

\* the number of ticks chain c had begun before a step
TicksBefore(c) == IF c <= Len(chains) THEN chains[c].ticks ELSE 0
RafBefore(c) == IF c <= Len(chains) THEN chains[c].raf ELSE 0
ErrorsBefore(c) == IF c <= Len(chains) THEN chains[c].errors ELSE 0

C14_CameraFailureIsFinal ==
    /\ [](camera = "failed" =>
            /\ webcamStatus = "Failed to start webcam."
            /\ ~cameraReady
            /\ ~loopStarted
            /\ chains = <<>>)
    /\ [][camera = "failed" => camera' = "failed"]_vars

C14_Witness ==
    /\ camera = "failed"
    /\ model = "loaded"
    /\ rendered = State
    /\ mounted

(***************************************************************************)
(* Properties of the classification App                                    *)
(***************************************************************************)
\* C15: when the loaded model has no layer list, or a list without the
\* named layer, a warning is logged, the intermediate model stays unset and
\* the primary model is set.
C15_MissingLayerWarns ==
    (cls_load = "loaded" /\ cls_layers \in {"nolayers", "notfound"}) =>
        /\ cls_warnings # {}
        /\ cls_intermediateModel = "null"
        /\ cls_model = "loaded"

\* C18: in a classification tick no tensor is passed to a model after it has
\* been released.
C18_NoUseAfterRelease == ~cls_disposedUse

(***************************************************************************)
(* Properties of the confidence filter and of the returned arrays          *)
(***************************************************************************)
\* 0-based index of the first class score equal to the best one
FirstBest(cs) ==
    (CHOOSE i \in 1..Len(cs) :
        cs[i] = SeqMax(cs) /\ \A j \in 1..(i - 1) : cs[j] < cs[i]) - 1

FilteredSources == { po_filtered.src[k] : k \in 1..Len(po_filtered.src) }

\* C16 as stated: a proposal is rejected exactly when its best class score is
\* below 0.5, so every proposal with best score 0.5 or more enters the
\* suppression step, with the index of that score as class id.
C16_RejectsExactlyBelowThreshold ==
    po_pc = "done" =>
        /\ \A i \in 1..Len(po_proposals) :
               (i \in FilteredSources) <=>
                   (SeqMax(po_proposals[i].classScores) >= ConfidenceThreshold)
        /\ \A k \in 1..Len(po_filtered.src) :
               po_filtered.classes[k] = FirstBest(po_proposals[po_filtered.src[k]].classScores)

\* C16 amended: a proposal is rejected exactly when its best class score is
\* 0.5 or less; every proposal with best score above 0.5 enters the
\* suppression step, with the index of that score as class id.
C16_RejectsAtOrBelowThreshold ==
    po_pc = "done" =>
        /\ \A i \in 1..Len(po_proposals) :
               (i \in FilteredSources) <=>
                   (SeqMax(po_proposals[i].classScores) > ConfidenceThreshold)
        /\ \A k \in 1..Len(po_filtered.src) :
               po_filtered.classes[k] = FirstBest(po_proposals[po_filtered.src[k]].classScores)

C16_Witness ==
    /\ po_pc = "done"
    /\ \E i \in 1..Len(po_proposals) :
          /\ SeqMax(po_proposals[i].classScores) = ConfidenceThreshold
          /\ i \notin FilteredSources
    /\ \E k \in 1..Len(po_filtered.src) : po_filtered.classes[k] = 1

\* C17: boxes, scores and classIds returned by processOutput have the same
\* length and entry k of each comes from one and the same proposal; all
\* three are empty when no proposal survives the filter.
C17_ArraysAligned ==
    po_pc = "done" =>
        /\ Len(po_result.boxes) = Len(po_result.scores)
        /\ Len(po_result.scores) = Len(po_result.classes)
        /\ \A k \in 1..Len(po_result.scores) :
               \E i \in 1..Len(po_proposals) :
                   LET p == po_proposals[i]
                   IN /\ po_result.scores[k] = SeqMax(p.classScores)
                      /\ po_result.classes[k] = FirstBest(p.classScores)
                      /\ po_result.boxes[k][3] = p.width * po_widthRatio
                      /\ po_result.boxes[k][4] = p.height * po_heightRatio
                      /\ 2 * po_result.boxes[k][1] = (2 * p.x_center - p.width) * po_widthRatio
                      /\ 2 * po_result.boxes[k][2] = (2 * p.y_center - p.height) * po_heightRatio
        /\ Survivors = {} =>
               po_result.boxes = <<>> /\ po_result.scores = <<>> /\ po_result.classes = <<>>

C17_Witness ==
    /\ po_pc = "done"
    /\ Len(po_result.scores) >= 2
    /\ Len(po_result.scores) < Len(po_filtered.scores)
    /\ \E k, l \in 1..Len(po_result.classes) : po_result.classes[k] # po_result.classes[l]

(***************************************************************************)
(* Properties of executeInference                                          *)
(***************************************************************************)
\* C19: when executeInference returns, the input tensor and every tensor
\* created during the call have been released exactly once, and predictions
\* is the only tensor of the call still live.
C19_AllButPredictionsReleased ==
    ei_pc = "done" =>
        /\ "predictions" \in DOMAIN ei_tensors
        /\ \A t \in DOMAIN ei_tensors :
               ei_tensors[t] = (IF t = "predictions" THEN 0 ELSE 1)

\* C20: the int8 array holds the quantized tensor's values, and the second
\* half of the model is fed the dequantized tensor rebuilt from that array.
C20_QuantizedDataFlow ==
    ei_pc = "done" =>
        /\ ei_data.int8 = [i \in 1..Len(ei_data.quantized) |-> ToInt8(ei_data.quantized[i])]
        /\ ei_fed.tensor = "dequantizedTensor"
        /\ ei_fed.values = ei_data.dequantized

(***************************************************************************)
(* Properties of the overlay and of the interval timers                    *)
(***************************************************************************)
\* chain c finishes a full tick in this step
CompletesTick(c) ==
    /\ chains'[c].steps = FullTick
    /\ \/ c > Len(chains)
       \/ chains[c].ticks # chains'[c].ticks
       \/ chains[c].steps # FullTick

C22_SingleInterval ==
    /\ [](/\ Cardinality(app_timers) <= 1
          /\ Cardinality(cls_timers) <= 1
          /\ \A t \in app_timers : t.id = AppEffectId /\ t.model = app_model
          /\ \A t \in cls_timers :
                 /\ t.id = ClsEffectId
                 /\ t.model = cls_model
                 /\ t.intermediateModel = cls_intermediateModel
          /\ (~app_mounted => app_timers = {})
          /\ (~cls_mounted => cls_timers = {}))
    /\ [][ /\ (~app_mounted => app_inflight' <= app_inflight)
           /\ (~cls_mounted => Len(cls_inflight') <= Len(cls_inflight))
         ]_vars

\* App.tsx has re-run its effect for the loaded model and a tick of the new
\* interval is in flight; the classification App was unmounted after its
\* effect re-ran, with a tick still in flight
C22_Witness ==
    /\ app_mounted /\ app_model = "loaded" /\ app_nextId = 3
    /\ Cardinality(app_timers) = 1
    /\ app_inflight > 0
    /\ ~cls_mounted /\ cls_model = "loaded" /\ cls_nextId = 3
    /\ cls_timers = {}
    /\ Len(cls_inflight) > 0

====
